---------------------------- MODULE Spec2Model ----------------------------
(***************************************************************************)
(* A state-machine model of BTrack (src/src/BTrack.cpp), the real-time     *)
(* beat tracker: the two countdown counters, the onset and cumulative      *)
(* score buffers, the tempo state vector and the public operations that    *)
(* change them.                                                            *)
(*                                                                         *)
(* Numbers.  The C++ code computes in double.  Here a buffer value is an   *)
(* integer number of units of 0.0001 (the constant the code adds to every  *)
(* onset sample), so 1.0 is 10000 units.  A product with a window weight   *)
(* (weights are kept in thousandths) is rounded UP: in the code a product  *)
(* of two positive doubles of these magnitudes is positive, never zero,    *)
(* and rounding up keeps exactly that.  The tempo state vector prevDelta   *)
(* is an exact rational vector: integer numerators over one denominator.   *)
(* A tempo in BPM is an exact rational [num, den].                         *)
(*                                                                         *)
(* Collaborators.  The resampler (libsamplerate), the FFT and therefore    *)
(* the autocorrelation / comb filterbank values are outside the source     *)
(* modelled here; calculateTempo receives the thresholded comb filterbank  *)
(* output (128 non-negative values) as an input drawn from CombOutputs.    *)
(***************************************************************************)
EXTENDS Integers, Sequences, FiniteSets, TLC

\* ------------------------------------------------------------------ bounds

\* Frames ingested in a run that makes no configuration call.
MaxFrames == 12

\* Calls of setTempo, fixTempo, doNotFixTempo, updateHopAndFrameSize in one run.
MaxConfigCalls == 2

\* Frames ingested in a run that makes configuration calls (the calls are made
\* while no more frames than this have been ingested).
MaxFramesWithCalls == 3

\* Frames of one run whose sample is not 0.
MaxImpulses == 1

\* The onset-impulse train: its period in frames, and the frames of it that
\* are ingested.
TrainPeriod == 8

MaxTrainFrames == 30

\* The sequences given to adaptiveThreshold: their length (long enough for
\* the three loops to cover separate index ranges, as with the lengths 512
\* and 128 of the program), and the largest sample value.
ThresholdLength == 17

MaxThresholdSample == 2

\* Hop sizes given to the constructor and to updateHopAndFrameSize.  The
\* buffers hold (512*512)/hopSize values, so large hop sizes keep them short.
\* 40000 and 65536 are hop sizes for which a beat period rounds to 0.
HopSizes == {8192, 40000, 65536}

\* Tempo arguments of setTempo and fixTempo, in BPM (all positive).
TempoArgs == {40, 160, 170, 330}

\* Onset detection function samples fed to the tracker, in units of 0.0001.
OnsetSamples == {-10000, 0, 10000}

\* ------------------------------------------------------- program constants

\* 0.0001, the constant added to every sample, is one unit; 1.0 is 10000.
One == 10000

NumTempoBins == 41

CombLength == 128

InitialM0 == 10

InitialBeatCounter == -1

\* 60 * 44100: frames per minute times hop size
SixtyFs == 2646000

\* ----------------------------------------------------------------- helpers

Abs(x) == IF x < 0 THEN -x ELSE x

\* C round() of the non-negative rational a/b (b > 0): halves round up.
RoundDiv(a, b) == (2 * a + b) \div (2 * b)

\* a/b rounded up, for a >= 0 and b > 0.
CeilDiv(a, b) == (a + b - 1) \div b

\* The largest of f[0], ..., f[n] and floor.
RECURSIVE MaxTo(_, _, _)
MaxTo(f, n, floor) ==
  IF n < 0 THEN floor
  ELSE LET rest == MaxTo(f, n - 1, floor) IN IF f[n] > rest THEN f[n] ELSE rest

\* The first index of 0 .. n at which f is largest.
RECURSIVE FirstMaxTo(_, _)
FirstMaxTo(f, n) ==
  IF n = 0 THEN 0
  ELSE LET k == FirstMaxTo(f, n - 1) IN IF f[n] > f[k] THEN n ELSE k

\* The function f written out as a table of its values (the same function).
Tabulated(f) == f @@ f

RECURSIVE SumTo(_, _)
SumTo(f, n) == IF n < 0 THEN 0 ELSE f[n] + SumTo(f, n - 1)

RECURSIVE Gcd(_, _)
Gcd(a, b) == IF b = 0 THEN a ELSE Gcd(b, a % b)

RECURSIVE GcdTo(_, _)
GcdTo(f, n) == IF n < 0 THEN 0 ELSE Gcd(f[n], GcdTo(f, n - 1))


\* --------------------------------------------------------- weight tables

\* exp(-(tightness * log(-v / beatPeriod))^2 / 2) with tightness = 5, in
\* thousandths rounded up, for -v = 1 .. 2*beatPeriod: row beatPeriod, column -v.
logGaussianTable ==
  <<<<1000, 3>>,
    <<3, 1000, 129, 3>>,
    <<1, 129, 1000, 356, 39, 3>>,
    <<1, 3, 356, 1000, 537, 129, 20, 3>>,
    <<1, 1, 39, 537, 1000, 661, 243, 64, 14, 3>>,
    <<1, 1, 3, 129, 661, 1000, 744, 356, 129, 39, 11, 3>>,
    <<1, 1, 1, 20, 243, 744, 1000, 801, 455, 204, 78, 27, 9, 3>>,
    <<1, 1, 1, 3, 64, 356, 801, 1000, 841, 537, 282, 129, 53, 20, 8, 3>>>>

\* exp(-(v - beatPeriod/2)^2 / (2 * (beatPeriod/2)^2)) in thousandths rounded
\* up, for v = 1 .. beatPeriod: row beatPeriod, column v.
beatExpectationTable ==
  <<<<607>>,
    <<1000, 607>>,
    <<946, 946, 607>>,
    <<883, 1000, 883, 607>>,
    <<836, 981, 981, 836, 607>>,
    <<801, 946, 1000, 946, 801, 607>>,
    <<775, 913, 990, 990, 913, 775, 607>>,
    <<755, 883, 970, 1000, 970, 883, 755, 607>>>>

\* (1 / (m_sig * sqrt(2*pi))) * exp(-(x - t_mu)^2 / (2 * m_sig^2)) with
\* m_sig = 41/8 = 5 (integer division), in thousandths rounded up, by the
\* distance |i - j| = 0 .. 40 (entry d + 1).
transitionTable ==
  <<80, 79, 74, 67, 58, 49, 39, 30, 23, 16, 11, 8, 5, 3, 2, 1, 1, 1, 1, 1, 1, 1, 1, 1, 1, 1, 1, 1, 1, 1, 1, 1, 1, 1, 1, 1, 1, 1, 1, 1, 1>>

\* w1[n] of updateCumulativeScore and logGaussianTransitionWeighting[n] of
\* predictBeat: the weight at v = -2*beatPeriod + n.
logGaussianWeight(n, bp) == logGaussianTable[bp][2 * bp - n]

\* beatExpectationWindow[n] of predictBeat: the weight at v = n + 1.
beatExpectationWindow(n, bp) == beatExpectationTable[bp][n + 1]

tempoTransitionMatrix(i, j) == transitionTable[Abs(i - j) + 1]

\* A buffer value times a weight in thousandths, rounded up.
Weighted(x, w) == CeilDiv(x * w, 1000)

\* ------------------------------------------------------- sliding buffers

\* CircularBuffer::addSampleToEnd: the values move one place towards index
\* 0 and v becomes the value at the last index.
AddSampleToEnd(buf, n, v) ==
  Tabulated([i \in 0..(n - 1) |-> IF i < n - 1 THEN buf[i + 1] ELSE v])

\* A read of buf[i]; outside the buffer the value read is not defined by the
\* buffer (the callers below multiply it by a NaN weight and discard it).
ReadAt(buf, i) == IF i \in DOMAIN buf THEN buf[i] ELSE 0

\* ------------------------------------------------- updateCumulativeScore

\* round(2 * beatPeriod) and round(beatPeriod / 2) for the whole-valued
\* beatPeriod the code keeps.
RoundTwice(bp) == 2 * bp

RoundHalf(bp) == RoundDiv(bp, 2)

WindowStart(n, bp) == n - RoundTwice(bp)

WindowEnd(n, bp) == n - RoundHalf(bp)

\* The running maximum (from 0) of buf[k] * weight over k = lo .. hi, the
\* weight index counting from 0 at lo.  With beatPeriod = 0 the weight is
\* exp of log(0/0), a NaN: no comparison with it succeeds and the maximum
\* stays 0.
MaxWeighted(buf, lo, hi, bp) ==
  IF bp = 0 THEN 0
  ELSE MaxTo(Tabulated([n \in 0..(hi - lo) |->
                           Weighted(ReadAt(buf, lo + n), logGaussianWeight(n, bp))]),
             hi - lo, 0)

\* latestCumulativeScoreValue, with alpha = 0.9 (rounded up to a unit).
LatestScore(cs, n, bp, sample) ==
  CeilDiv(sample + 9 * MaxWeighted(cs, WindowStart(n, bp), WindowEnd(n, bp), bp), 10)

updateCumulativeScore(cs, n, bp, sample) ==
  AddSampleToEnd(cs, n, LatestScore(cs, n, bp, sample))

\* ----------------------------------------------------------- predictBeat

\* (int) beatPeriod
beatExpectationWindowSize(bp) == bp

\* futureCumulativeScore after the synthesis loop has filled index i .. last.
RECURSIVE FutureFrom(_, _, _, _)
FutureFrom(f, i, last, bp) ==
  IF i > last THEN f
  ELSE FutureFrom(f @@ (i :> MaxWeighted(f, i - RoundTwice(bp), i - RoundHalf(bp), bp)),
                  i + 1, last, bp)

futureCumulativeScore(cs, n, bp) ==
  FutureFrom(cs, n, n + beatExpectationWindowSize(bp) - 1, bp)

\* The beatCounter predictBeat leaves: the first offset whose weighted future
\* score is the largest, when that is above 0 (maxValue starts at 0 and the
\* comparison is strict); otherwise beatCounter keeps its value bc.
PredictedBeatCounter(cs, n, bp, bc) ==
  LET size == beatExpectationWindowSize(bp)
      fut  == futureCumulativeScore(cs, n, bp)
      wv   == Tabulated([k \in 0..(size - 1) |->
                           Weighted(fut[n + k], beatExpectationWindow(k, bp))])
  IN IF size = 0 \/ MaxTo(wv, size - 1, 0) = 0 THEN bc ELSE FirstMaxTo(wv, size - 1)

\* m0 = beatCounter + round(beatPeriod / 2)
NextPredictionTime(bc, bp) == bc + RoundHalf(bp)

\* Every index read by updateCumulativeScore lies in the buffer.
UpdateReadsInRange(n, bp) == 0 <= WindowStart(n, bp) /\ WindowEnd(n, bp) <= n - 1

\* Every index predictBeat reads of futureCumulativeScore is at least 0 and
\* below the position being written.
PredictReadsInRange(n, bp) ==
  \A i \in n..(n + beatExpectationWindowSize(bp) - 1) :
     0 <= i - RoundTwice(bp) /\ i - RoundHalf(bp) <= i - 1


\* ------------------------------------------------------------ tempo state

Bins == 0..(NumTempoBins - 1)

\* A 41-bin vector of exact rationals num[i] / den.
Vec(f, d) == [num |-> f, den |-> d]

\* The same vector in lowest terms (the all-zero vector gets den = 1).
Canon(v) ==
  LET g == Gcd(GcdTo(v.num, NumTempoBins - 1), v.den)
  IN Vec(Tabulated([i \in Bins |-> v.num[i] \div g]), v.den \div g)

OneHot(k) == Vec([i \in Bins |-> IF i = k THEN 1 ELSE 0], 1)

AllOnes == Vec([i \in Bins |-> 1], 1)

AllZero == Vec([i \in Bins |-> 0], 1)

\* A tempo in BPM as the exact rational num / den.
Bpm(n) == [num |-> n, den |-> 1]

\* A folding loop that also halves a tempo of exactly 160.
RECURSIVE HalveFrom160(_)
HalveFrom160(t) ==
  IF t.num >= 160 * t.den THEN HalveFrom160([num |-> t.num, den |-> 2 * t.den]) ELSE t

\* while (tempo > 160) tempo = tempo / 2;
RECURSIVE HalveAbove160(_)
HalveAbove160(t) ==
  IF t.num > 160 * t.den THEN HalveAbove160([num |-> t.num, den |-> 2 * t.den]) ELSE t

\* while (tempo < 80) tempo = tempo * 2;
RECURSIVE DoubleBelow80(_)
DoubleBelow80(t) ==
  IF t.num < 80 * t.den THEN DoubleBelow80([num |-> 2 * t.num, den |-> t.den]) ELSE t

FoldTempo(t) == DoubleBelow80(HalveAbove160(t))

\* (int) round((tempo - 80) / 2) for a folded tempo
TempoIndex(t) == RoundDiv(t.num - 80 * t.den, 2 * t.den)

\* (int) round(60 / ((hopSize / 44100) * tempo))
NewBeatPeriod(hop, t) == RoundDiv(SixtyFs * t.den, hop * t.num)

\* The pulses setTempo writes from the last index backwards: k = 1 at the
\* last index and again after every newBeatPeriod values (k is reset as soon
\* as it exceeds newBeatPeriod, so at once when newBeatPeriod <= 1).
SetTempoPulses(n, nbp) ==
  [i \in 0..(n - 1) |->
     IF nbp <= 1 \/ ((n - 1 - i) % nbp) = 0 THEN 150 * One ELSE 10 * One]

\* round(tempoToLagFactor / tempo) with tempoToLagFactor = 60 * 44100 / 512
TempoToLag(bpm) == RoundDiv(SixtyFs, 512 * bpm)

tempoObservationVector(comb) ==
  Tabulated([i \in Bins |->
               comb[TempoToLag(2 * i + 80) - 1] + comb[TempoToLag(4 * i + 160) - 1]])

\* delta[j] = max_i (prevDelta[i] * tempoTransitionMatrix[i][j]) * observation[j];
\* the matrix is in thousandths.
DeltaOf(pd, obs) ==
  Vec(Tabulated([j \in Bins |->
         IF obs[j] = 0 THEN 0
         ELSE MaxTo([i \in Bins |-> pd.num[i] * tempoTransitionMatrix(i, j)],
                    NumTempoBins - 1, -1) * obs[j]]),
      pd.den * 1000)

\* normaliseVector: divide by the sum when the sum is above 0.
normaliseVector(v) ==
  LET sum == SumTo(v.num, NumTempoBins - 1)
  IN IF sum > 0 THEN Canon(Vec(v.num, sum)) ELSE Canon(v)

\* The first index holding the largest value (the scan starts from -1 and
\* compares strictly).
MaxIndex(v) == FirstMaxTo(v.num, NumTempoBins - 1)

\* round((60 * 44100) / (((2 * maxIndex) + 80) * hopSize))
BeatPeriodOfBin(maxIndex, hop) == RoundDiv(SixtyFs, (2 * maxIndex + 80) * hop)

\* 60 / ((hopSize / 44100) * beatPeriod), in hundredths of a BPM
TempoOfBeatPeriod(hop, bp) == (SixtyFs * 100) \div (hop * bp)

\* The state vector the forward update starts from.
PreviousState(pd, pdFixed, fixed) == IF fixed THEN pdFixed ELSE pd

\* prevDelta after calculateTempo.
NewPrevDelta(comb, pd, pdFixed, fixed) ==
  normaliseVector(DeltaOf(PreviousState(pd, pdFixed, fixed), tempoObservationVector(comb)))

\* --------------------------------------------------------------- setHopSize

\* (512 * 512) / hopSize
BufferSizeOf(hop) == (512 * 512) \div hop

\* A beat period truncated instead of rounded.
TruncatedBeatPeriod(hop) == SixtyFs \div (120 * hop)

\* round(60 / ((hopSize / 44100) * 120))
InitialBeatPeriod(hop) == RoundDiv(SixtyFs, 120 * hop)

\* i % (int) round(beatPeriod) for beatPeriod >= 1.
Remainder(i, bp) == i % bp

\* The buffers setHopSize leaves.  With round(beatPeriod) = 0 the remainder
\* i % 0 is undefined behaviour; a build that does not trap leaves the
\* dividend as the remainder (see SetHopSizeOutcomes).
SeedOnsetDF(n, bp) ==
  [i \in 0..(n - 1) |->
     IF (IF bp = 0 THEN i ELSE Remainder(i, bp)) = 0 THEN One ELSE 0]

ZeroBuffer(n) == [i \in 0..(n - 1) |-> 0]

\* Whether setHopSize can end in a trap: a division by zero is executed when
\* the loop runs at all with round(beatPeriod) = 0.
SetHopSizeOutcomes(hop) ==
  IF InitialBeatPeriod(hop) = 0 /\ BufferSizeOf(hop) > 0 THEN {TRUE, FALSE} ELSE {FALSE}

\* -------------------------------------------------------- adaptiveThreshold

\* calculateMeanOfVector (vector, startIndex, endIndex): the sum of the
\* elements startIndex .. endIndex - 1 and their number; the mean is
\* sum / length when length > 0, and 0 otherwise.
RECURSIVE SumRange(_, _, _)
SumRange(x, startIndex, endIndex) ==
  IF startIndex >= endIndex THEN 0
  ELSE x[startIndex] + SumRange(x, startIndex + 1, endIndex)

calculateMeanOfVector(x, startIndex, endIndex) ==
  [sum |-> SumRange(x, startIndex, endIndex), length |-> endIndex - startIndex]

Min(a, b) == IF a < b THEN a ELSE b

Max(a, b) == IF a > b THEN a ELSE b

\* int t = std::min (N, p_post);
ThresholdT(N) == Min(N, 7)

\* The arguments of the calculateMeanOfVector call that writes threshold[i]
\* last: the loop of the last samples (i >= N - p_post), else the loop of
\* the bulk (i > t), else the loop of the first samples.
ThresholdStart(i, N) ==
  IF i >= N - 7 THEN Max(i - 7, 1)
  ELSE IF i > ThresholdT(N) THEN i - 8
  ELSE 1

ThresholdEnd(i, N) ==
  IF i >= N - 7 THEN N
  ELSE IF i > ThresholdT(N) THEN i + 7
  ELSE Min(i + 8, N)

\* threshold[i], as sum and length.
ThresholdOf(x, i, N) == calculateMeanOfVector(x, ThresholdStart(i, N), ThresholdEnd(i, N))

\* x after adaptiveThreshold (x), each element as the exact rational
\* num / den: x[i] - threshold[i], or 0 when that is negative.
adaptiveThreshold(x) ==
  LET N == Cardinality(DOMAIN x)
  IN Tabulated([i \in 0..(N - 1) |->
       LET th == ThresholdOf(x, i, N)
       IN IF th.length > 0
          THEN [num |-> Max(x[i] * th.length - th.sum, 0), den |-> th.length]
          ELSE [num |-> Max(x[i], 0), den |-> 1]])

\* The sequences given to adaptiveThreshold: a level with up to two other
\* samples.
ThresholdInputs ==
  {[i \in 0..(ThresholdLength - 1) |-> IF i = a THEN u ELSE IF i = b THEN v ELSE level] :
     <<a, b, u, v, level>> \in (0..(ThresholdLength - 1)) \X (0..(ThresholdLength - 1))
                               \X (0..MaxThresholdSample) \X (0..MaxThresholdSample)
                               \X (0..1)}

\* ------------------------------------------------- inputs of calculateTempo

CombOf(spikes) ==
  [k \in 0..(CombLength - 1) |->
     IF \E s \in spikes : s[1] = k THEN (CHOOSE s \in spikes : s[1] = k)[2] ELSE 0]

\* combFilterBankOutput after its adaptive threshold: all zero (a flat
\* onset history), one peak at lag 16 (read by bins 39 and 40), peaks at lag
\* 65 (bin 0) and lag 37 (bins 29 and 30).
CombOutputs ==
  {CombOf({}), CombOf({<<15, 2>>}), CombOf({<<64, 1>>, <<36, 2>>})}


\* ------------------------------------------------------------------ state

VARIABLES
  hopSize,                    \* int hopSize
  onsetDFBufferSize,          \* int onsetDFBufferSize
  beatPeriod,                 \* double beatPeriod (always whole: every write rounds)
  onsetDF,                    \* CircularBuffer onsetDF, index 0 oldest
  cumulativeScore,            \* CircularBuffer cumulativeScore
  latestCumulativeScoreValue,
  m0,                         \* frames to the next prediction pass
  beatCounter,                \* frames to the next beat
  beatDueInFrame,
  prevDelta,                  \* tempo state vector
  prevDeltaFixed,
  tempoFixed,
  estimatedTempo,             \* in hundredths of a BPM
  trapped,                    \* the process died in a division by zero
  lastCall,                   \* the public operation that ran last
  lastArg,                    \* its tempo or hop size argument (0: none)
  predictRan,                 \* predictBeat ran in the last ingested frame
  tempoRan,                   \* the tempo estimator ran in the last ingested frame
  readsInRange,               \* every score index read in the last frame was valid
  framesIngested,
  impulses,                   \* frames ingested with a sample other than 0
  framesSinceBeat,            \* frames ingested since the last beat (-1: no beat yet)
  beatsSincePredict,          \* beats raised since predictBeat last ran, its own frame
                              \* included (-1: predictBeat has not run yet)
  configCalls,
  setTempoM0,                 \* m0 as left by the last setTempo (-1: none yet)
  framesSinceSetTempo,        \* frames ingested since then
  predictedAfter,             \* frames ingested since then when predictBeat next ran (-1: not yet)
  thresholdInput,             \* the vector x given to adaptiveThreshold (<<>>: none)
  thresholdOutput             \* x after that call (<<>>: not called)

vars ==
  <<hopSize, onsetDFBufferSize, beatPeriod, onsetDF, cumulativeScore,
    latestCumulativeScoreValue, m0, beatCounter, beatDueInFrame, prevDelta,
    prevDeltaFixed, tempoFixed, estimatedTempo, trapped, lastCall, lastArg,
    predictRan, tempoRan, readsInRange, framesIngested, impulses, framesSinceBeat,
    beatsSincePredict, configCalls, setTempoM0, framesSinceSetTempo, predictedAfter,
    thresholdInput, thresholdOutput>>

thresholdVars == <<thresholdInput, thresholdOutput>>

counters == <<m0, beatCounter>>

buffers == <<onsetDF, cumulativeScore, onsetDFBufferSize>>

ghosts ==
  <<predictRan, tempoRan, readsInRange, framesIngested, impulses, framesSinceBeat,
    beatsSincePredict>>

setTempoWatch == <<setTempoM0, framesSinceSetTempo, predictedAfter>>

\* ------------------------------------------------------------ constructor

\* BTrack::BTrack (int hopSize_): initialise, ending in setHopSize.
Constructed ==
  \E hop \in HopSizes : \E trap \in SetHopSizeOutcomes(hop) :
    /\ hopSize = hop
    /\ onsetDFBufferSize = BufferSizeOf(hop)
    /\ beatPeriod = InitialBeatPeriod(hop)
    /\ onsetDF = SeedOnsetDF(BufferSizeOf(hop), InitialBeatPeriod(hop))
    /\ cumulativeScore = ZeroBuffer(BufferSizeOf(hop))
    /\ latestCumulativeScoreValue = 0
    /\ m0 = InitialM0
    /\ beatCounter = InitialBeatCounter
    /\ beatDueInFrame = FALSE
    /\ prevDelta = AllOnes
    /\ prevDeltaFixed = AllZero
    /\ tempoFixed = FALSE
    /\ estimatedTempo = 120 * 100
    /\ trapped = trap
    /\ lastCall = "construct"
    /\ lastArg = hop
    /\ predictRan = FALSE
    /\ tempoRan = FALSE
    /\ readsInRange = TRUE
    /\ framesIngested = 0
    /\ impulses = 0
    /\ framesSinceBeat = -1
    /\ beatsSincePredict = -1
    /\ configCalls = 0
    /\ setTempoM0 = -1
    /\ framesSinceSetTempo = 0
    /\ predictedAfter = -1

\* A constructed tracker; adaptiveThreshold is followed on its own, in
\* SpecThreshold.
Init == Constructed /\ thresholdInput = <<>> /\ thresholdOutput = <<>>

\* ------------------------------------------------------- frame ingestion

\* if (m0 == 0) predictBeat();
PredictionDue(m) == m = 0

\* A beat test that also fires on a counter that has passed 0.
BeatDueAtOrBelowZero(bc) == bc <= 0

\* if (beatCounter == 0) { beatDueInFrame = true; ... calculateTempo(); }
BeatDue(bc) == bc = 0

\* m0--; beatCounter--;
Decrement(c) == c - 1

\* newSample = fabs (newSample) + 0.0001
PositiveSample(x) == Abs(x) + 1

\* resampleOnsetDetectionFunction and calculateTempo, the comb filterbank
\* output being comb: the new prevDelta, beatPeriod and estimatedTempo.
calculateTempo(comb) ==
  /\ prevDelta' = NewPrevDelta(comb, prevDelta, prevDeltaFixed, tempoFixed)
  /\ beatPeriod' = BeatPeriodOfBin(MaxIndex(prevDelta'), hopSize)
  /\ estimatedTempo' = IF beatPeriod' > 0 THEN TempoOfBeatPeriod(hopSize, beatPeriod')
                       ELSE estimatedTempo

\* The frames explored: a run is MaxFrames long (MaxFramesWithCalls when
\* it has configuration calls) and has at most MaxImpulses samples other
\* than 0.
FrameBudget(x) ==
  /\ framesIngested < (IF configCalls = 0 THEN MaxFrames ELSE MaxFramesWithCalls)
  /\ x # 0 => impulses < MaxImpulses

\* The body of processOnsetDetectionFunctionSample for the sample x.
Ingest(x) ==
  /\ ~trapped
  /\ impulses' = IF x # 0 THEN impulses + 1 ELSE impulses
  /\ onsetDF' = AddSampleToEnd(onsetDF, onsetDFBufferSize, PositiveSample(x))
  /\ cumulativeScore' =
       updateCumulativeScore(cumulativeScore, onsetDFBufferSize, beatPeriod, PositiveSample(x))
  /\ latestCumulativeScoreValue' = cumulativeScore'[onsetDFBufferSize - 1]
  /\ predictRan' = PredictionDue(Decrement(m0))
  /\ beatCounter' =
       IF predictRan'
       THEN PredictedBeatCounter(cumulativeScore', onsetDFBufferSize, beatPeriod,
                                 Decrement(beatCounter))
       ELSE Decrement(beatCounter)
  /\ m0' = IF predictRan' THEN NextPredictionTime(beatCounter', beatPeriod) ELSE Decrement(m0)
  /\ IF BeatDue(beatCounter')
     THEN /\ beatDueInFrame' = TRUE
          /\ tempoRan' = TRUE
          /\ \E comb \in CombOutputs : calculateTempo(comb)
     ELSE /\ beatDueInFrame' = FALSE
          /\ tempoRan' = FALSE
          /\ UNCHANGED <<prevDelta, beatPeriod, estimatedTempo>>
  /\ readsInRange' = (/\ UpdateReadsInRange(onsetDFBufferSize, beatPeriod)
                      /\ predictRan' => PredictReadsInRange(onsetDFBufferSize, beatPeriod))
  /\ framesIngested' = framesIngested + 1
  /\ framesSinceBeat' = IF beatDueInFrame' THEN 0
                        ELSE IF framesSinceBeat < 0 THEN -1 ELSE framesSinceBeat + 1
  /\ beatsSincePredict' =
       IF predictRan' THEN (IF beatDueInFrame' THEN 1 ELSE 0)
       ELSE IF beatsSincePredict < 0 THEN -1
       ELSE beatsSincePredict + (IF beatDueInFrame' THEN 1 ELSE 0)
  /\ lastCall' = "process"
  /\ lastArg' = 0
  /\ framesSinceSetTempo' =
       IF setTempoM0 >= 0 /\ predictedAfter < 0
       THEN framesSinceSetTempo + 1 ELSE framesSinceSetTempo
  /\ predictedAfter' =
       IF setTempoM0 >= 0 /\ predictedAfter < 0 /\ predictRan'
       THEN framesSinceSetTempo + 1 ELSE predictedAfter
  /\ UNCHANGED <<hopSize, onsetDFBufferSize, prevDeltaFixed, tempoFixed, trapped,
                 configCalls, setTempoM0, thresholdVars>>

processOnsetDetectionFunctionSample ==
  \E x \in OnsetSamples : FrameBudget(x) /\ Ingest(x)

\* processAudioFrame: the onset detection function collaborator turns the
\* audio frame into one sample, which is then ingested.
processAudioFrame ==
  \E sample \in OnsetSamples : FrameBudget(sample) /\ Ingest(sample)

\* ------------------------------------------------------ configuration calls

ConfigCall(name, arg) ==
  /\ ~trapped
  /\ configCalls < MaxConfigCalls
  /\ framesIngested <= MaxFramesWithCalls
  /\ configCalls' = configCalls + 1
  /\ lastCall' = name
  /\ lastArg' = arg
  /\ UNCHANGED thresholdVars

setTempo(tempo) ==
  LET t   == FoldTempo(Bpm(tempo))
      nbp == NewBeatPeriod(hopSize, t)
      m   == RoundDiv(nbp, 2)
  IN /\ ConfigCall("setTempo", tempo)
     /\ prevDelta' = OneHot(TempoIndex(t))
     /\ cumulativeScore' = SetTempoPulses(onsetDFBufferSize, nbp)
     /\ onsetDF' = SetTempoPulses(onsetDFBufferSize, nbp)
     /\ beatCounter' = 0
     /\ m0' = m
     /\ setTempoM0' = m
     /\ framesSinceSetTempo' = 0
     /\ predictedAfter' = -1
     /\ UNCHANGED <<hopSize, onsetDFBufferSize, beatPeriod, latestCumulativeScoreValue,
                    beatDueInFrame, prevDeltaFixed, tempoFixed, estimatedTempo, trapped,
                    ghosts>>

fixTempo(tempo) ==
  LET t == FoldTempo(Bpm(tempo))
  IN /\ ConfigCall("fixTempo", tempo)
     /\ prevDeltaFixed' = OneHot(TempoIndex(t))
     /\ tempoFixed' = TRUE
     /\ UNCHANGED <<hopSize, buffers, beatPeriod, latestCumulativeScoreValue, counters,
                    beatDueInFrame, prevDelta, estimatedTempo, trapped, ghosts,
                    setTempoWatch>>

doNotFixTempo ==
  /\ ConfigCall("doNotFixTempo", 0)
  /\ tempoFixed' = FALSE
  /\ UNCHANGED <<hopSize, buffers, beatPeriod, latestCumulativeScoreValue, counters,
                 beatDueInFrame, prevDelta, prevDeltaFixed, estimatedTempo, trapped,
                 ghosts, setTempoWatch>>

\* updateHopAndFrameSize: re-initialises the onset detection function
\* collaborator, then setHopSize.
updateHopAndFrameSize(hop) ==
  /\ ConfigCall("updateHopAndFrameSize", hop)
  /\ hopSize' = hop
  /\ onsetDFBufferSize' = BufferSizeOf(hop)
  /\ beatPeriod' = InitialBeatPeriod(hop)
  /\ onsetDF' = SeedOnsetDF(BufferSizeOf(hop), InitialBeatPeriod(hop))
  /\ cumulativeScore' = ZeroBuffer(BufferSizeOf(hop))
  /\ trapped' \in SetHopSizeOutcomes(hop)
  /\ UNCHANGED <<latestCumulativeScoreValue, counters, beatDueInFrame, prevDelta,
                 prevDeltaFixed, tempoFixed, estimatedTempo, ghosts, setTempoWatch>>

Next ==
  \/ processOnsetDetectionFunctionSample
  \/ processAudioFrame
  \/ \E tempo \in TempoArgs : setTempo(tempo)
  \/ \E tempo \in TempoArgs : fixTempo(tempo)
  \/ doNotFixTempo
  \/ \E hop \in HopSizes : updateHopAndFrameSize(hop)

Spec == Init /\ [][Next]_vars

\* The runs in which no division by zero is executed: the hop sizes given
\* to the constructor and to updateHopAndFrameSize have a 120-BPM beat period
\* of at least one frame.
DefinedHopSizes == {hop \in HopSizes : SetHopSizeOutcomes(hop) = {FALSE}}

InitDefined == Init /\ hopSize \in DefinedHopSizes

NextDefined == Next /\ hopSize' \in DefinedHopSizes

SpecDefined == InitDefined /\ [][NextDefined]_vars

\* The runs that feed a freshly constructed tracker of hop size 8192 an
\* onset-impulse train: the sample is 1 on every
\* TrainPeriod-th frame and 0 (0.0001 once ingested) on the others.
TrainSample(k) == IF k % TrainPeriod = 0 THEN One ELSE 0

InitImpulseTrain == Init /\ hopSize = 8192

ImpulseTrainFrame ==
  /\ framesIngested < MaxTrainFrames
  /\ Ingest(TrainSample(framesIngested))

SpecImpulseTrain == InitImpulseTrain /\ [][ImpulseTrainFrame]_vars

\* The runs that call adaptiveThreshold on one of ThresholdInputs (as
\* calculateTempo does on resampledOnsetDF and on combFilterBankOutput).
tracker ==
  <<hopSize, buffers, beatPeriod, latestCumulativeScoreValue, counters, beatDueInFrame,
    prevDelta, prevDeltaFixed, tempoFixed, estimatedTempo, trapped, lastCall, lastArg,
    ghosts, configCalls, setTempoWatch>>

InitThreshold ==
  /\ Constructed
  /\ hopSize = 8192
  /\ thresholdInput \in ThresholdInputs
  /\ thresholdOutput = <<>>

ThresholdCall ==
  /\ thresholdOutput = <<>>
  /\ thresholdOutput' = adaptiveThreshold(thresholdInput)
  /\ UNCHANGED <<thresholdInput, tracker>>

SpecThreshold == InitThreshold /\ [][ThresholdCall]_vars


\* ------------------------------------------------------------------ claims

\* A step that ingests one frame.
FrameStep == framesIngested' = framesIngested + 1

\* A step that is a call of the named configuration operation.
CallStep(name) == configCalls' = configCalls + 1 /\ lastCall' = name

\* C1: in every call of processOnsetDetectionFunctionSample the beat flag is
\* raised if and only if beatCounter is 0 in that call (after the decrement
\* and any predictor run), and the tempo estimator runs in that call if and
\* only if the flag is raised.
C1_BeatFlagIffCounterZero ==
  [][FrameStep => /\ beatDueInFrame' <=> (beatCounter' = 0)
                  /\ tempoRan' <=> beatDueInFrame']_vars

\* A frame in which predictBeat ran, set beatCounter to 0, and the beat was
\* raised with the tempo estimator run in the same call.
C1_Witness ==
  lastCall = "process" /\ predictRan /\ beatCounter = 0 /\ beatDueInFrame /\ tempoRan

\* C2 (as claimed): after updateHopAndFrameSize both countdown counters are
\* back at their initial values 10 and -1.
C2_CountersResetByUpdate ==
  (lastCall = "updateHopAndFrameSize" /\ ~trapped) => (m0 = 10 /\ beatCounter = -1)

\* The length (512*512)/hop claimed for the buffers, stated by its bounds.
IsBufferLength(len, hop) == len * hop <= 512 * 512 /\ 512 * 512 < (len + 1) * hop

\* p is the 120-BPM beat period of hop, 60*44100/(120*hop), rounded to the
\* nearest whole number of frames.
IsSeedPeriod(p, hop) ==
  /\ (2 * p - 1) * (120 * hop) <= 2 * 60 * 44100
  /\ 2 * 60 * 44100 < (2 * p + 1) * (120 * hop)

\* C3: after updateHopAndFrameSize(newHop, ...) both buffers have length
\* (512*512)/newHop, the cumulative score is all 0, and the onset history is
\* the seed pattern: 1 at every multiple of the 120-BPM beat period of newHop
\* and 0 elsewhere.
C3_BuffersReseededByUpdate ==
  (lastCall = "updateHopAndFrameSize" /\ ~trapped) =>
     LET len == Cardinality(DOMAIN onsetDF)
     IN \E p \in 0..len :
        /\ IsBufferLength(len, lastArg)
        /\ IsSeedPeriod(p, lastArg)
        /\ DOMAIN onsetDF = 0..(len - 1)
        /\ DOMAIN cumulativeScore = 0..(len - 1)
        /\ \A i \in 0..(len - 1) :
             /\ cumulativeScore[i] = 0
             /\ onsetDF[i] = IF \E k \in 0..len : i = k * p THEN One ELSE 0

\* updateHopAndFrameSize called after setTempo and after frames were
\* ingested, for a hop size whose buffers hold several seed impulses.
C3_Witness ==
  /\ lastCall = "updateHopAndFrameSize" /\ ~trapped
  /\ setTempoM0 >= 0 /\ framesIngested > 0
  /\ beatPeriod > 1 /\ onsetDFBufferSize > 8

\* C4 (as claimed): beatPeriod is strictly positive in every reachable state.
C4_BeatPeriodPositive == beatPeriod > 0

\* C5 (as claimed): in every call of updateCumulativeScore and predictBeat
\* every index used to read the cumulative score (and the future score
\* array) lies within the valid range.
C5_ScoreIndicesInRange == lastCall = "process" => readsInRange


RECURSIVE Pow2(_)
Pow2(k) == IF k = 0 THEN 1 ELSE 2 * Pow2(k - 1)

\* The number of halvings that bring the tempo t to 160 or below, and the
\* number of doublings that then bring it to 80 or above.
Halvings(t) == CHOOSE h \in 0..12 : t <= 160 * Pow2(h) /\ \A g \in 0..(h - 1) : t > 160 * Pow2(g)

Doublings(t) ==
  CHOOSE d \in 0..12 : /\ t * Pow2(d) >= 80 * Pow2(Halvings(t))
                       /\ \A c \in 0..(d - 1) : t * Pow2(c) < 80 * Pow2(Halvings(t))

\* b is round((f - 80) / 2) for the folded tempo f = fn / fd.
IsFoldedBin(b, fn, fd) == (2 * b - 1) * fd <= fn - 80 * fd /\ fn - 80 * fd < (2 * b + 1) * fd

\* v is one-hot at bin b: exactly that entry is 1 and the other 40 are 0.
IsOneHotAt(v, b) ==
  /\ v.den = 1
  /\ \A i \in 0..40 : v.num[i] = IF i = b THEN 1 ELSE 0

\* C6: fixTempo folds a positive tempo into [80, 160] by repeated halving
\* above 160 and doubling below 80 (170 to 85, 40 to 80), leaves
\* prevDeltaFixed one-hot at bin round((folded - 80)/2), a bin in 0..40, sets
\* tempoFixed, and changes neither the counters, the buffers, beatPeriod nor
\* prevDelta.
C6_FixTempoFoldsAndPins ==
  [][CallStep("fixTempo") =>
       LET t  == lastArg'
           fn == t * Pow2(Doublings(t))
           fd == Pow2(Halvings(t))
       IN /\ 80 * fd <= fn /\ fn <= 160 * fd
          /\ \E b \in 0..40 : IsFoldedBin(b, fn, fd) /\ IsOneHotAt(prevDeltaFixed', b)
          /\ t = 170 => fn = 85 * fd
          /\ t = 40 => fn = 80 * fd
          /\ tempoFixed'
          /\ UNCHANGED <<m0, beatCounter, onsetDF, cumulativeScore, onsetDFBufferSize,
                         beatPeriod, prevDelta>>]_vars

\* fixTempo(170) called after frames were ingested: the pin is at bin 3
\* (85 BPM).
C6_Witness ==
  /\ lastCall = "fixTempo" /\ lastArg = 170 /\ framesIngested > 0
  /\ prevDeltaFixed.num[3] = 1 /\ tempoFixed

VecSum(v) == SumTo(v.num, 40)

\* C7 (as claimed): after every run of the tempo estimator prevDelta has
\* only non-negative entries and sums to 1 (so it is never all-zero).
C7_PrevDeltaSumsToOne ==
  (lastCall = "process" /\ tempoRan) =>
     /\ \A i \in 0..40 : prevDelta.num[i] >= 0
     /\ prevDelta.den > 0
     /\ VecSum(prevDelta) = prevDelta.den

\* C8 (as claimed): setTempo(t) folds t into [80, 160], makes prevDelta
\* one-hot at bin round((t - 80)/2), overwrites both buffers with 150 at the
\* last index and at every newBeatPeriod-th index counted backwards from it
\* and 10 everywhere else (newBeatPeriod = round(60*44100/(hopSize*t))), sets
\* beatCounter = 0 and m0 = round(newBeatPeriod/2); the next prediction pass
\* runs exactly m0 ingested frames later.
C8_SetTempoSeedsAndSchedules ==
  /\ lastCall = "setTempo" =>
       LET t   == lastArg
           fn  == t * Pow2(Doublings(t))
           fd  == Pow2(Halvings(t))
           len == onsetDFBufferSize
       IN /\ 80 * fd <= fn /\ fn <= 160 * fd
          /\ \E b \in 0..40 : IsFoldedBin(b, fn, fd) /\ IsOneHotAt(prevDelta, b)
          /\ beatCounter = 0
          /\ \E nbp \in 0..len :
               /\ (2 * nbp - 1) * (hopSize * fn) <= 2 * 60 * 44100 * fd
               /\ 2 * 60 * 44100 * fd < (2 * nbp + 1) * (hopSize * fn)
               /\ 2 * m0 - 1 <= nbp /\ nbp < 2 * m0 + 1
               /\ nbp >= 1 =>
                    \A i \in 0..(len - 1) :
                      LET pulse == IF \E k \in 0..len : (len - 1) - i = k * nbp
                                   THEN 150 * One ELSE 10 * One
                      IN onsetDF[i] = pulse /\ cumulativeScore[i] = pulse
  /\ setTempoM0 >= 0 =>
       IF predictedAfter < 0
       THEN framesSinceSetTempo = 0 \/ framesSinceSetTempo < setTempoM0
       ELSE predictedAfter = setTempoM0

\* 60*44100/(hopSize*P) for the impulse train's period P, in hundredths of a
\* BPM.
TrainTempo == RoundDiv(SixtyFs * 100, hopSize * TrainPeriod)

\* C9 (as claimed): fed an onset-impulse train of constant period P frames,
\* after a warm-up of a few (here three) periods the beats are exactly P
\* frames apart and the tempo estimate is 60*44100/(hopSize*P), here to
\* within 5 BPM.
C9_ImpulseTrainConverges ==
  [][(FrameStep /\ framesIngested' >= 3 * TrainPeriod) =>
       /\ Abs(estimatedTempo' - TrainTempo) <= 5 * 100
       /\ (beatDueInFrame' /\ framesSinceBeat >= 0) => framesSinceBeat + 1 = TrainPeriod]_vars

\* C10 (as claimed): both counters decrease by exactly 1 in every ingested
\* frame, the predictor runs exactly in the frames where m0 reaches 0, and
\* every predictor run sets beatCounter to an offset n with 0 <= n <
\* beatPeriod and m0 = beatCounter + round(beatPeriod/2), so m0 >= 1.
C10_CountersAndPrediction ==
  [][FrameStep =>
       /\ predictRan' <=> (m0 - 1 = 0)
       /\ ~predictRan' => (m0' = m0 - 1 /\ beatCounter' = beatCounter - 1)
       /\ predictRan' =>
            /\ 0 <= beatCounter' /\ beatCounter' < beatPeriod
            /\ 2 * (m0' - beatCounter') - 1 <= beatPeriod
            /\ beatPeriod < 2 * (m0' - beatCounter') + 1
            /\ m0' >= 1]_vars


\* The sum of the original samples over the window i-8 .. i+7 clamped to
\* [0, N), and the number of samples in it.
ClampedWindowLow(i) == IF i - 8 < 0 THEN 0 ELSE i - 8

ClampedWindowHigh(i, N) == IF i + 7 > N - 1 THEN N - 1 ELSE i + 7

ClampedWindowSum(x, i, N) == SumRange(x, ClampedWindowLow(i), ClampedWindowHigh(i, N) + 1)

ClampedWindowSize(i, N) == ClampedWindowHigh(i, N) - ClampedWindowLow(i) + 1

\* C11 (as claimed): adaptiveThreshold replaces each x[i] by
\* max(0, x[i] - m_i), m_i being the mean of the original samples over the
\* window i-8 .. i+7 clamped to [0, N), and every output element is >= 0.
C11_ThresholdSubtractsClampedWindowMean ==
  thresholdOutput # <<>> =>
    LET x == thresholdInput
        N == Cardinality(DOMAIN x)
    IN /\ DOMAIN thresholdOutput = 0..(N - 1)
       /\ \A i \in 0..(N - 1) :
            LET size == ClampedWindowSize(i, N)
                diff == x[i] * size - ClampedWindowSum(x, i, N)
                out  == thresholdOutput[i]
            IN /\ out.den > 0 /\ out.num >= 0
               /\ out.num * size = (IF diff > 0 THEN diff ELSE 0) * out.den


\* C12 (as claimed): in a run of frame ingestions only, every predictor
\* run leaves m0 > beatCounter >= 0, exactly one frame raises the beat flag
\* between two consecutive predictor runs (the frame of the earlier run
\* counted), and two beats never occur without a predictor run in between.
C12_OneBeatBetweenPredictions ==
  [][(FrameStep /\ configCalls = 0) =>
       /\ predictRan' => (m0' > beatCounter' /\ beatCounter' >= 0)
       /\ (predictRan' /\ beatsSincePredict >= 0) => beatsSincePredict = 1
       /\ beatsSincePredict' <= 1]_vars

=============================================================================
